---- MODULE Spec2Model ----
(***************************************************************************)
(* Delivery-Consultant: dataset merger, metrics engine, delay model        *)
(* wrapper, impact estimator / action ranker and crew facade, modelled as  *)
(* state machines.  Every component has its own specification; the         *)
(* variables of the components a specification does not exercise stay at   *)
(* their idle value.                                                       *)
(*                                                                         *)
(* Numbers.  pandas/numpy cells are IEEE doubles.  A cell is modelled as a *)
(* fraction [n, d] in lowest terms: d > 0 is the finite number n/d,        *)
(* d = 0 with n = 1 / -1 is +inf / -inf, and d = 0 with n = 0 is NaN (the  *)
(* "missing" cell of a numeric column).  Rounding error of binary floating *)
(* point is not modelled.                                                  *)
(*                                                                         *)
(* Tables.  A DataFrame is [cols, rows]: the set of column names and the   *)
(* sequence of rows, each row a function from cols to cells.  Text columns *)
(* (Order_ID, Route, Weather_Impact) hold strings, NA being the missing    *)
(* text cell.                                                              *)
(***************************************************************************)
EXTENDS Integers, Sequences, FiniteSets, TLC

VARIABLES
    df,          \* metrics: the table object the caller passes to compute_metrics
    df0,         \* metrics: the content of that object when the call was made
    out,         \* metrics: the table compute_metrics returned
    warned,      \* metrics: the columns compute_metrics warned about
    pcM,         \* metrics: "ready" before the call, "done" after
    imodel,      \* impact: the model handed to estimate_impact
    base_input,  \* impact: the one-row table built by _prepare_input
    changes,     \* impact: column -> literal override or ("mul", factor)
    base_pred,   \* impact: prediction for the base row
    new_pred,    \* impact: prediction for the modified row
    impact,      \* impact: what estimate_impact returned
    pcI,         \* impact: "ready" before the call, "done" after
    artifact,    \* model: the file at MODEL_PATH
    data,        \* model: the data files' content, as far as training sees it
    returned,    \* model: the outcome of the last load_model call
    last,        \* model: what the last load_model call met and did
    calls,       \* model: load_model calls made so far
    pinput,      \* model: the table last passed to predict
    preds,       \* model: the outcome of that predict call
    adf,         \* actions: the merged table with metrics
    amodel,      \* actions: the model
    abase,       \* actions: the base input row
    crew,        \* actions: the text-generation collaborator, or "none"
    run_result,  \* actions: what crew.run did, "not_called" when it was not called
    actions,     \* actions: the outcome of generate_corrective_actions
    pcA,         \* actions: "ready" before the call, "done" after
    fs,          \* merge: the data directory, file name -> absent or a table
    prefill,     \* merge: the joined table before the default fill
    merged,      \* merge: the outcome of load_and_merge_data
    merge_error, \* merge: the path named by the FileNotFoundError, <<>> if none
    pcD,         \* merge: "ready" before the call, "done" after
    p_fs,        \* startup: the data directory
    p_fs0,       \* startup: the data directory when the script started
    p_artifact,  \* startup: the file at MODEL_PATH
    p_raw,       \* startup: raw, the outcome of load_and_merge_data()
    p_df,        \* startup: df
    p_model,     \* startup: model, the outcome of load_model()
    p_crew,      \* startup: crew
    p_error,     \* startup: the path named by the error that stopped the script
    p_loads,     \* startup: calls of load_and_merge_data made by the script itself
    pcP,         \* startup: the next step, "ready" or "halted"
    cenv,        \* crew: the environment create_crew runs in
    ccrew,       \* crew: the outcome of create_crew
    cprompt,     \* crew: the prompt passed to run, <<>> before the call
    ctext,       \* crew: what run returned or did
    pcC          \* crew: "ready", then "created", then "ran"

metricsVars == <<df, df0, out, warned, pcM>>
impactVars == <<imodel, base_input, changes, base_pred, new_pred, impact, pcI>>

modelVars == <<artifact, data, returned, last, calls, pinput, preds>>

actionVars == <<adf, amodel, abase, crew, run_result, actions, pcA>>

mergeVars == <<fs, prefill, merged, merge_error, pcD>>
startupVars == <<p_fs, p_fs0, p_artifact, p_raw, p_df, p_model, p_crew, p_error, p_loads, pcP>>

crewVars == <<cenv, ccrew, cprompt, ctext, pcC>>

vars == <<metricsVars, impactVars, modelVars, actionVars, mergeVars, startupVars, crewVars>>

----------------------------------------------------------------------------
(* Bounds *)

MaxRows == 2          \* rows of a table handed to compute_metrics
MaxCoef == 1          \* largest magnitude of a fitted regression coefficient
MaxChanges == 2       \* entries of a changes mapping
MaxDataRows == 2      \* rows of the merged table load_model trains on
MaxCalls == 2         \* load_model calls in one behaviour
MaxPredictRows == 2   \* rows of a table passed to predict
MaxSrcRows == 2       \* rows of one data file

----------------------------------------------------------------------------
(* Floating point cells.  An operator binds each argument it uses more than   *)
(* once to a variable ranging over a one-element set, so that the argument is *)
(* evaluated once: Only({e(a) : a \in {x}}) is e(x).                          *)

Only(S) == CHOOSE x \in S : TRUE

Abs(x) == Only({IF a < 0 THEN -a ELSE a : a \in {x}})

Sgn(x) == Only({IF a < 0 THEN -1 ELSE IF a > 0 THEN 1 ELSE 0 : a \in {x}})

RECURSIVE GCD(_, _)
GCD(x, y) == Only({IF b = 0 THEN a ELSE GCD(b, a % b) : a \in {x}, b \in {y}})

\* the cell n/d; d = 0 gives +inf, -inf or NaN by the sign of n
Num(x, y) ==
    Only({IF d = 0 THEN [n |-> Sgn(n), d |-> 0]
          ELSE Only({[n |-> (s * n) \div g, d |-> (s * d) \div g] :
                       s \in {IF d < 0 THEN -1 ELSE 1}, g \in {GCD(Abs(n), Abs(d))}}) :
          n \in {x}, d \in {y}})

NaN == [n |-> 0, d |-> 0]
Zero == Num(0, 1)
One == Num(1, 1)

isna(x) == \E a \in {x} : a.d = 0 /\ a.n = 0
notna(x) == ~isna(x)
isinf(x) == \E a \in {x} : a.d = 0 /\ a.n # 0

\* comparisons; every comparison with NaN is false
Gt(x, y) == \E a \in {x}, b \in {y} : notna(a) /\ notna(b) /\ a.n * b.d > b.n * a.d
Lt(x, y) == Gt(y, x)
Geq(x, y) == \E a \in {x}, b \in {y} : notna(a) /\ notna(b) /\ a.n * b.d >= b.n * a.d
Leq(x, y) == Geq(y, x)

Add(x, y) ==
    Only({IF a.d = 0 /\ b.d = 0
          THEN (IF a = b THEN a ELSE NaN)
          ELSE Num(a.n * b.d + b.n * a.d, a.d * b.d) : a \in {x}, b \in {y}})

Neg(x) == Only({[n |-> -a.n, d |-> a.d] : a \in {x}})
Sub(x, y) == Add(x, Neg(y))
Mul(x, y) == Only({Num(a.n * b.n, a.d * b.d) : a \in {x}, b \in {y}})
Recip(x) == Only({Num(a.d, a.n) : a \in {x}})
\* numpy division: x/0 is +inf or -inf, 0/0 is NaN, never an exception
Div(x, y) == Mul(x, Recip(y))

\* Python's max(a, b): a unless b > a
PyMax(x, y) == Only({IF Gt(b, a) THEN b ELSE a : a \in {x}, b \in {y}})

----------------------------------------------------------------------------
(* Tables *)

NA == "<NA>"

Range(s) == {s[i] : i \in 1..Len(s)}

RECURSIVE SeqsUpTo(_, _)
\* every sequence over S of length at most k
SeqsUpTo(S, k) ==
    IF k = 0 THEN {<<>>}
    ELSE LET shorter == SeqsUpTo(S, k - 1)
         IN  shorter \cup {Append(s, x) : s \in {t \in shorter : Len(t) = k - 1}, x \in S}

Restrict(r, C) == [c \in C |-> r[c]]

\* df[c] = f(row), for a new or an existing column c
WithCol(df_, c, f(_)) ==
    Only({[cols |-> t.cols \cup {c},
           rows |-> [i \in 1..Len(t.rows) |->
                       Only({[k \in t.cols \cup {c} |-> IF k = c THEN v ELSE t.rows[i][k]] :
                               v \in {f(t.rows[i])}})]] :
          t \in {df_}})

\* df[c] = v when the column is not there yet
EnsureCol(df_, c, v) ==
    Only({IF c \in t.cols THEN t ELSE WithCol(t, c, LAMBDA r : v) : t \in {df_}})

RECURSIVE EnsureCols(_, _, _)
EnsureCols(df_, cols_, v) ==
    Only({IF cs = <<>> THEN t ELSE EnsureCols(EnsureCol(t, Head(cs), v), Tail(cs), v) :
          t \in {df_}, cs \in {cols_}})

Column(df_, c) == Only({[i \in 1..Len(t.rows) |-> t.rows[i][c]] : t \in {df_}})

\* the rows of group g of df.groupby(key column)
SelectRows(df_, key, g) ==
    Only({[cols |-> t.cols, rows |-> SelectSeq(t.rows, LAMBDA r : r[key] = g)] : t \in {df_}})

----------------------------------------------------------------------------
(* Metrics engine: utils/metrics.py *)

cost_cols == <<"Fuel_Cost_INR", "Labor_Cost_INR", "Maintenance_Cost_INR", "Toll_Charges_INR">>

RECURSIVE SumSkipNa(_, _)
\* DataFrame.sum(axis=1): missing cells are skipped, the empty sum is 0
SumSkipNa(r, cols_) ==
    Only({IF cs = <<>> THEN Zero
          ELSE IF isna(r[Head(cs)]) THEN SumSkipNa(r, Tail(cs))
          ELSE Add(r[Head(cs)], SumSkipNa(r, Tail(cs))) : cs \in {cols_}})

\* mutant: the row sum lets a missing cell propagate (sum(axis=1, skipna=False))
total_cost_propagating(r) ==
    Add(Add(Add(r[cost_cols[1]], r[cost_cols[2]]), r[cost_cols[3]]), r[cost_cols[4]])

total_cost(r) == SumSkipNa(r, cost_cols)

\* mutant: the quotient without the np.where guard
fuel_per_km_unguarded(r) == Div(r["Fuel_Consumption_L"], r["Distance_KM"])

\* np.where(cond, a, b) evaluates both a and b and then selects
fuel_per_km(r) ==
    Only({IF Gt(r["Distance_KM"], Zero) /\ notna(r["Distance_KM"]) THEN quotient ELSE NaN :
          quotient \in {Div(r["Fuel_Consumption_L"], r["Distance_KM"])}})

delay_index(r) == Div(r["Traffic_Delay_Minutes"], Num(60, 1))

RECURSIVE SeriesMax(_)
\* Series.max(): the largest non-missing value, NaN when there is none
SeriesMax(series) ==
    Only({IF s = <<>> THEN NaN
          ELSE Only({IF isna(Head(s)) THEN rest
                     ELSE IF isna(rest) THEN Head(s)
                     ELSE IF Gt(rest, Head(s)) THEN rest ELSE Head(s) :
                     rest \in {SeriesMax(Tail(s))}}) :
          s \in {series}})

\* mutant: the denominator without its 0.1 floor
reliability_denom_unfloored(df_) ==
    Only({IF t.rows # <<>> THEN SeriesMax(Column(t, "Delay_Index")) ELSE Zero : t \in {df_}})

\* max_delay, then max(max_delay, 0.1)
reliability_denom(df_) ==
    Only({PyMax(IF t.rows # <<>> THEN SeriesMax(Column(t, "Delay_Index")) ELSE Zero,
                Num(1, 10)) : t \in {df_}})

reliability_score(r, denom) == Sub(One, Div(r["Delay_Index"], denom))

metrics_warnings(t) ==
    {c \in Range(cost_cols) \cup {"Fuel_Consumption_L", "Distance_KM", "Traffic_Delay_Minutes"} :
        c \notin t.cols}

compute_metrics(t) ==
    LET d1 == EnsureCols(t, cost_cols, Zero)
        d2 == WithCol(d1, "Total_Cost_INR", total_cost)
        d3 == EnsureCol(d2, "Fuel_Consumption_L", NaN)
        d4 == EnsureCol(d3, "Distance_KM", NaN)
        d5 == WithCol(d4, "Fuel_per_KM", fuel_per_km)
        d6 == EnsureCol(d5, "Traffic_Delay_Minutes", Zero)
        d7 == WithCol(d6, "Delay_Index", delay_index)
    IN  Only({Only({WithCol(x, "Reliability_Score", LAMBDA r : reliability_score(r, denom)) :
                      denom \in {reliability_denom(x)}}) : x \in {d7}})

MetricsSampleRows ==
    { [Order_ID |-> "A", Fuel_Cost_INR |-> Num(100, 1), Labor_Cost_INR |-> Num(50, 1),
       Maintenance_Cost_INR |-> NaN, Toll_Charges_INR |-> Num(20, 1),
       Fuel_Consumption_L |-> Num(10, 1), Distance_KM |-> Num(4, 1),
       Traffic_Delay_Minutes |-> Num(30, 1)],
      [Order_ID |-> "B", Fuel_Cost_INR |-> NaN, Labor_Cost_INR |-> NaN,
       Maintenance_Cost_INR |-> NaN, Toll_Charges_INR |-> Zero,
       Fuel_Consumption_L |-> Num(10, 1), Distance_KM |-> Zero,
       Traffic_Delay_Minutes |-> Zero],
      [Order_ID |-> "C", Fuel_Cost_INR |-> Num(100, 1), Labor_Cost_INR |-> NaN,
       Maintenance_Cost_INR |-> Num(7, 1), Toll_Charges_INR |-> Zero,
       Fuel_Consumption_L |-> Num(7, 1), Distance_KM |-> NaN,
       Traffic_Delay_Minutes |-> Num(90, 1)],
      [Order_ID |-> "D", Fuel_Cost_INR |-> Num(1, 1), Labor_Cost_INR |-> Num(2, 1),
       Maintenance_Cost_INR |-> Num(3, 1), Toll_Charges_INR |-> Num(4, 1),
       Fuel_Consumption_L |-> Num(3, 1), Distance_KM |-> Num(-5, 1),
       Traffic_Delay_Minutes |-> Num(-60, 1)],
      [Order_ID |-> "E", Fuel_Cost_INR |-> Num(100, 1), Labor_Cost_INR |-> Num(50, 1),
       Maintenance_Cost_INR |-> Num(7, 1), Toll_Charges_INR |-> Num(20, 1),
       Fuel_Consumption_L |-> Num(10, 1), Distance_KM |-> Num(3, 1),
       Traffic_Delay_Minutes |-> Num(3, 1)] }

MetricsOptionalCols ==
    Range(cost_cols) \cup {"Fuel_Consumption_L", "Distance_KM", "Traffic_Delay_Minutes"}

MetricsInputs ==
    { [cols |-> C \cup {"Order_ID"},
       rows |-> [i \in 1..Len(rs) |-> Restrict(rs[i], C \cup {"Order_ID"})]] :
        C \in SUBSET MetricsOptionalCols, rs \in SeqsUpTo(MetricsSampleRows, MaxRows) }

EmptyTable == [cols |-> {}, rows |-> <<>>]

IdleMetrics ==
    /\ df = EmptyTable
    /\ df0 = EmptyTable
    /\ out = EmptyTable
    /\ warned = {}
    /\ pcM = "idle"

InitMetrics ==
    /\ df \in MetricsInputs
    /\ df0 = df
    /\ out = EmptyTable
    /\ warned = {}
    /\ pcM = "ready"

CallComputeMetrics ==
    /\ pcM = "ready"
    /\ out' = compute_metrics(df)
    /\ df' = out'       \* every column is assigned into the caller's object, which is returned
    /\ warned' = metrics_warnings(df)
    /\ pcM' = "done"
    /\ UNCHANGED <<df0, impactVars, modelVars, actionVars, mergeVars, startupVars, crewVars>>

NextMetrics == CallComputeMetrics

----------------------------------------------------------------------------
(* Delay model wrapper: predictor.py *)

features == <<"Distance_KM", "Fuel_per_KM", "Weather_Impact_Num", "Total_Cost_INR">>

weather_labels == <<"None", "Light_Rain", "Heavy_Rain", "Fog">>

\* weather_map.get(label, 0) and Series.map(weather_map).fillna(0)
weather_code(label) ==
    Only({IF \E i \in 1..Len(weather_labels) : weather_labels[i] = l
          THEN Num((CHOOSE i \in 1..Len(weather_labels) : weather_labels[i] = l) - 1, 1)
          ELSE Zero : l \in {label}})

\* the outcome of a call: a value, or an exception
Returned(v) == [ok |-> TRUE, val |-> v]
Raised == [ok |-> FALSE, val |-> <<>>]

fillna0(x) == Only({IF isna(a) THEN Zero ELSE a : a \in {x}})

\* Series.replace(0, 1)
replace_0_1(x) == Only({IF a = Zero THEN One ELSE a : a \in {x}})

\* PredictWrapper(DummyModel(), features) and PredictWrapper(LinearRegression, features)
DummyWrapper == [inner |-> "dummy", coef |-> <<0, 0, 0, 0>>, intercept |-> 0]
LinearWrapper(coef, intercept) == [inner |-> "linear", coef |-> coef, intercept |-> intercept]

\* PredictWrapper._preprocess: the dense feature matrix, or the KeyError of
\* X["Distance_KM"] when Fuel_per_KM is derived from a table without distance
preprocess(df_) ==
    Only({
    IF "Fuel_per_KM" \notin t.cols /\ "Fuel_Consumption_L" \in t.cols
       /\ "Distance_KM" \notin t.cols
    THEN Raised
    ELSE
    LET x1 == IF "Fuel_per_KM" \notin t.cols /\ "Fuel_Consumption_L" \in t.cols
              THEN WithCol(t, "Fuel_per_KM",
                     LAMBDA r : Div(r["Fuel_Consumption_L"], replace_0_1(r["Distance_KM"])))
              ELSE t
        x2 == Only({IF "Weather_Impact" \in x.cols
                    THEN WithCol(x, "Weather_Impact_Num",
                                 LAMBDA r : weather_code(r["Weather_Impact"]))
                    ELSE EnsureCol(x, "Weather_Impact_Num", Zero) : x \in {x1}})
    IN  Only({Returned([i \in 1..Len(x3.rows) |->
                          [j \in 1..Len(features) |-> fillna0(x3.rows[i][features[j]])]]) :
              x3 \in {EnsureCols(x2, features, Zero)}})
    : t \in {df_}})

RECURSIVE Dot(_, _)
Dot(coef_, x_) ==
    Only({IF coef = <<>> THEN Zero
          ELSE Add(Mul(Num(Head(coef), 1), Head(x)), Dot(Tail(coef), Tail(x))) :
          coef \in {coef_}, x \in {x_}})

\* DummyModel.predict: np.zeros(len(X))
dummy_predict(X_) == Only({[i \in 1..Len(X) |-> Zero] : X \in {X_}})

\* LinearRegression.predict: X . coef + intercept
linear_predict(m, X_) ==
    Only({[i \in 1..Len(X) |-> Add(Dot(m.coef, X[i]), Num(m.intercept, 1))] : X \in {X_}})

\* PredictWrapper.predict on a DataFrame
predict(m, t) ==
    Only({IF ~Xp.ok THEN Raised
          ELSE IF m.inner = "dummy" THEN Returned(dummy_predict(Xp.val))
          ELSE Returned(linear_predict(m, Xp.val)) : Xp \in {preprocess(t)}})

----------------------------------------------------------------------------
(* Impact estimator: main.py *)

\* _prepare_input
prepare_input(distance_km_, fuel_l_, toll_inr, weather_label, cost) ==
    Only({
    [cols |-> {"Distance_KM", "Fuel_Consumption_L", "Toll_Charges_INR",
               "Weather_Impact_Num", "Fuel_per_KM", "Total_Cost_INR"},
     rows |-> << [Distance_KM |-> distance_km,
                  Fuel_Consumption_L |-> fuel_l,
                  Toll_Charges_INR |-> toll_inr,
                  Weather_Impact_Num |-> weather_code(weather_label),
                  Fuel_per_KM |-> IF distance_km # Zero THEN Div(fuel_l, distance_km) ELSE Zero,
                  Total_Cost_INR |-> cost] >>]
    : distance_km \in {distance_km_}, fuel_l \in {fuel_l_}})

SetTo(v) == [kind |-> "set", v |-> v]
ScaleBy(f) == [kind |-> "mul", v |-> f]

apply_change(df_, k, ch_) ==
    Only({IF ch.kind = "mul"
          THEN (IF k \in t.cols THEN WithCol(t, k, LAMBDA r : Mul(r[k], ch.v)) ELSE t)
          ELSE WithCol(t, k, LAMBDA r : ch.v) : t \in {df_}, ch \in {ch_}})

RECURSIVE apply_changes(_, _, _)
\* the loop over changes.items(); the keys of a mapping are distinct
apply_changes(df_, chg, keys_) ==
    Only({IF K = {} THEN t
          ELSE Only({apply_changes(apply_change(t, k, chg[k]), chg, K \ {k}) :
                       k \in {CHOOSE x \in K : TRUE}}) :
          t \in {df_}, K \in {keys_}})

\* float(model.predict(t)[0]) if t.shape[0] else 0.0
first_pred(m, df_) ==
    Only({IF t.rows = <<>> THEN Returned(Zero)
          ELSE Only({IF ~p.ok \/ p.val = <<>> THEN Raised ELSE Returned(p.val[1]) :
                       p \in {predict(m, t)}}) : t \in {df_}})

\* mutant: the difference without the clamp at zero
clamp_missing(x) == x

\* max(0.0, x)
clamp(x) == PyMax(Zero, x)

\* [ok, base, new, val]: the two predictions and the returned estimate
estimate_impact(m, base, chg) ==
    Only({IF ~bp.ok \/ ~np.ok
          THEN [ok |-> FALSE, base |-> NaN, new |-> NaN, val |-> NaN]
          ELSE [ok |-> TRUE, base |-> bp.val, new |-> np.val,
                val |-> clamp(Sub(bp.val, np.val))] :
          bp \in {first_pred(m, base)},
          np \in {first_pred(m, apply_changes(base, chg, DOMAIN chg))}})

Coefs == (0 - MaxCoef)..MaxCoef

\* the stub and fitted regressions; no change touches Total_Cost_INR, whose
\* coefficient is left at 0
Models ==
    {DummyWrapper} \cup
    {LinearWrapper(<<a, b, c, 0>>, 30) : a \in Coefs, b \in Coefs, c \in Coefs}

\* sidebar values inside the ranges of the number_input widgets
BaseInputs ==
    {prepare_input(Num(dist, 1), Num(fuel, 1), Num(200, 1), w, Num(2000, 1)) :
        dist \in {500}, fuel \in {100}, w \in {"None", "Heavy_Rain"}}

ChangeCols == {"Distance_KM", "Weather_Impact_Num", "Fuel_per_KM", "Driver_Rating"}

ChangeValues ==
    {SetTo(Zero), SetTo(Num(700, 1)), ScaleBy(Num(9, 10)), ScaleBy(Num(2, 1))}

ChangeMappings ==
    UNION {[K -> ChangeValues] : K \in {S \in SUBSET ChangeCols : Cardinality(S) <= MaxChanges}}

IdleImpact ==
    /\ imodel = DummyWrapper
    /\ base_input = EmptyTable
    /\ changes = <<>>
    /\ base_pred = NaN
    /\ new_pred = NaN
    /\ impact = Raised
    /\ pcI = "idle"

InitImpact ==
    /\ imodel \in Models
    /\ base_input \in BaseInputs
    /\ changes \in ChangeMappings
    /\ base_pred = NaN
    /\ new_pred = NaN
    /\ impact = Raised
    /\ pcI = "ready"

CallEstimateImpact ==
    /\ pcI = "ready"
    /\ \E e \in {estimate_impact(imodel, base_input, changes)} :
           /\ base_pred' = e.base
           /\ new_pred' = e.new
           /\ impact' = IF e.ok THEN Returned(e.val) ELSE Raised
    /\ pcI' = "done"
    /\ UNCHANGED <<imodel, base_input, changes, metricsVars, modelVars, actionVars, mergeVars, startupVars, crewVars>>

NextImpact == CallEstimateImpact

----------------------------------------------------------------------------
(* Model loading: predictor.load_model *)

\* what joblib.load can give back: a wrapper, or an object without predict
NoPredict == [inner |-> "none", coef |-> <<0, 0, 0, 0>>, intercept |-> 0]

has_predict(obj) == obj.inner # "none"

Absent == [exists |-> FALSE, readable |-> FALSE, obj |-> NoPredict]
Unreadable == [exists |-> TRUE, readable |-> FALSE, obj |-> NoPredict]
Stored(obj) == [exists |-> TRUE, readable |-> TRUE, obj |-> obj]

\* LinearRegression().fit(X, y): the coefficients are a function of the data
fit(d) == LinearWrapper(<<d.slope, 0, 0, 0>>, 30)

\* the environment of one call: do the sklearn/utils imports work, does joblib
\* import, do the data files load, does fit succeed, and how does dump end
Envs ==
    [imports_ok : BOOLEAN, joblib_ok : BOOLEAN, data_ok : BOOLEAN, fit_ok : BOOLEAN,
     dump : {"ok", "fails", "fails_midway"}]

Outcome(ok, model, art, loaded, read_data, trained, wrote) ==
    [ok |-> ok, model |-> model, artifact |-> art, loaded |-> loaded,
     read_data |-> read_data, trained |-> trained, wrote |-> wrote]

\* lines 105-114: fit, wrap, best-effort dump
train_and_persist(art, d, e) ==
    LET wrapper == fit(d)
        art2 == IF ~e.joblib_ok \/ e.dump = "fails" THEN art
                ELSE IF e.dump = "fails_midway" THEN Unreadable
                ELSE Stored(wrapper)
    IN  Outcome(TRUE, wrapper, art2, FALSE, TRUE, TRUE, art2 # art)

\* mutant: an exception while loading data or fitting reaches the caller
training_unprotected(art, d, e) ==
    IF ~e.data_ok THEN Outcome(FALSE, NoPredict, art, FALSE, TRUE, FALSE, FALSE)
    ELSE IF d.nrows < 2 THEN Outcome(TRUE, DummyWrapper, art, FALSE, TRUE, FALSE, FALSE)
    ELSE IF ~e.fit_ok THEN Outcome(FALSE, NoPredict, art, FALSE, TRUE, TRUE, FALSE)
    ELSE train_and_persist(art, d, e)

\* lines 87-118: the try block that loads data and trains
training(art, d, e) ==
    IF ~e.data_ok THEN Outcome(TRUE, DummyWrapper, art, FALSE, TRUE, FALSE, FALSE)
    ELSE IF d.nrows < 2 THEN Outcome(TRUE, DummyWrapper, art, FALSE, TRUE, FALSE, FALSE)
    ELSE IF ~e.fit_ok THEN Outcome(TRUE, DummyWrapper, art, FALSE, TRUE, TRUE, FALSE)
    ELSE train_and_persist(art, d, e)

\* lines 75-85: is the artifact there, loadable and predict-capable
artifact_usable(art, e) ==
    art.exists /\ e.joblib_ok /\ art.readable /\ has_predict(art.obj)

\* mutant: the artifact is ignored and every call trains
load_model_retrains(art, d, e) ==
    IF ~e.imports_ok THEN Outcome(TRUE, DummyWrapper, art, FALSE, FALSE, FALSE, FALSE)
    ELSE training(art, d, e)

\* mutant: the stub of the failed imports is written to MODEL_PATH
load_model_persists_stub(art, d, e) ==
    IF ~e.imports_ok
    THEN Outcome(TRUE, DummyWrapper, Stored(DummyWrapper), FALSE, FALSE, FALSE, TRUE)
    ELSE IF artifact_usable(art, e) THEN Outcome(TRUE, art.obj, art, TRUE, FALSE, FALSE, FALSE)
    ELSE training(art, d, e)

load_model(art, d, e) ==
    IF ~e.imports_ok THEN Outcome(TRUE, DummyWrapper, art, FALSE, FALSE, FALSE, FALSE)
    ELSE IF artifact_usable(art, e) THEN Outcome(TRUE, art.obj, art, TRUE, FALSE, FALSE, FALSE)
    ELSE training(art, d, e)

DataSets ==
    {[nrows |-> n, slope |-> c] : n \in 0..MaxDataRows, c \in {1, 2}}

OldWrapper == LinearWrapper(<<3, 0, 0, 0>>, 30)

InitialArtifacts == {Absent, Unreadable, Stored(NoPredict), Stored(OldWrapper)}

NoCall ==
    [usable |-> FALSE, deserialized |-> FALSE, fallback |-> FALSE, loaded |-> FALSE, read_data |-> FALSE,
     trained |-> FALSE, wrote |-> FALSE]

\* tables for predict: any subset of the raw feature columns, any cell missing
PredictCols ==
    {"Distance_KM", "Fuel_Consumption_L", "Weather_Impact", "Fuel_per_KM", "Total_Cost_INR"}

PredictSampleRows ==
    { [Distance_KM |-> Zero, Fuel_Consumption_L |-> Num(5, 1), Weather_Impact |-> "Heavy_Rain",
       Fuel_per_KM |-> NaN, Total_Cost_INR |-> Num(500, 1)],
      [Distance_KM |-> Num(10, 1), Fuel_Consumption_L |-> NaN, Weather_Impact |-> "Hailstorm",
       Fuel_per_KM |-> Num(1, 2), Total_Cost_INR |-> NaN] }

PredictInputs ==
    { [cols |-> C, rows |-> [i \in 1..Len(rs) |-> Restrict(rs[i], C)]] :
        C \in SUBSET PredictCols, rs \in SeqsUpTo(PredictSampleRows, MaxPredictRows) }

IdleModel ==
    /\ artifact = Absent
    /\ data = [nrows |-> 0, slope |-> 0]
    /\ returned = Raised
    /\ last = NoCall
    /\ calls = 0
    /\ pinput = EmptyTable
    /\ preds = Raised

InitModel ==
    /\ artifact \in InitialArtifacts
    /\ data \in DataSets
    /\ returned = Raised
    /\ last = NoCall
    /\ calls = 0
    /\ pinput = EmptyTable
    /\ preds = Raised

\* load_model neither reads nor writes a prediction, so a call made after one
\* reaches the states a call made before it reaches; calls are taken before it
CallLoadModel ==
    /\ calls < MaxCalls
    /\ pinput = EmptyTable
    /\ \E e \in Envs :
         \E o \in {load_model(artifact, data, e)} :
             /\ returned' = IF o.ok THEN Returned(o.model) ELSE Raised
             /\ artifact' = o.artifact
             /\ last' = [usable |-> e.imports_ok /\ artifact_usable(artifact, e),
                         deserialized |-> artifact_usable(artifact, e),
                         fallback |-> ~e.imports_ok \/ ~e.data_ok \/ ~e.fit_ok \/ data.nrows < 2,
                         loaded |-> o.loaded, read_data |-> o.read_data,
                         trained |-> o.trained, wrote |-> o.wrote]
    /\ calls' = calls + 1
    /\ UNCHANGED <<pinput, preds, data, metricsVars, impactVars, actionVars, mergeVars, startupVars, crewVars>>

\* the data files change between two calls
ChangeData ==
    /\ 0 < calls /\ calls < MaxCalls
    /\ data' \in DataSets \ {data}
    /\ UNCHANGED <<artifact, returned, last, calls, pinput, preds, metricsVars, impactVars, actionVars, mergeVars, startupVars, crewVars>>

CallPredict ==
    /\ calls > 0
    /\ returned.ok
    /\ has_predict(returned.val)
    /\ pinput = EmptyTable
    /\ \E t \in PredictInputs \ {EmptyTable} :
         /\ pinput' = t
         /\ preds' = predict(returned.val, t)
    /\ UNCHANGED <<artifact, data, returned, last, calls, metricsVars, impactVars, actionVars, mergeVars, startupVars, crewVars>>

NextModel == CallLoadModel \/ ChangeData \/ CallPredict

----------------------------------------------------------------------------
(* Action ranker: main.generate_corrective_actions *)

\* int(x): truncation towards zero
Trunc(x) == Only({Sgn(a.n) * (Abs(a.n) \div a.d) : a \in {x}})

\* round-half-even to an integer, as round() does
RoundHalfEven(x) ==
    Only({Only({IF Lt(r, Num(1, 2)) THEN f
                ELSE IF Gt(r, Num(1, 2)) THEN f + 1
                ELSE IF f % 2 = 0 THEN f ELSE f + 1 : r \in {Sub(a, Num(f, 1))}}) :
          a \in {x}, f \in {x.n \div x.d}})

\* round(x, 1)
round1(x) ==
    Only({IF a.d = 0 THEN a ELSE Num(RoundHalfEven(Mul(a, Num(10, 1))), 10) : a \in {x}})

route_col(t) == IF "Route" \in t.cols THEN "Route" ELSE "Order_ID"

\* groupby(route_col): rows with a missing key belong to no group
route_groups(df_) ==
    Only({{t.rows[i][route_col(t)] : i \in 1..Len(t.rows)} \ {NA} : t \in {df_}})

RECURSIVE SumSeq(_)
SumSeq(xs_) ==
    Only({IF xs = <<>> THEN Zero ELSE Add(Head(xs), SumSeq(Tail(xs))) : xs \in {xs_}})

\* ["Traffic_Delay_Minutes"].mean() of one group: missing delays are skipped
group_mean(t, g) ==
    Only({IF ds = <<>> THEN NaN ELSE Div(SumSeq(ds), Num(Len(ds), 1)) :
          ds \in {SelectSeq(Column(SelectRows(t, route_col(t), g), "Traffic_Delay_Minutes"),
                            notna)}})

\* the keys that sort_values(ascending=False) can put first: a group of the
\* highest mean (the order among equal means is not fixed by the sort), a
\* missing mean going last
top_routes(df_) ==
    Only({Only({IF valued = {} THEN G
                ELSE {g \in valued :
                        \A h \in valued : Geq(group_mean(t, g), group_mean(t, h))} :
                valued \in {{g \in G : notna(group_mean(t, g))}}}) :
          t \in {df_}, G \in {route_groups(df_)}})

Action(title, priority, est, cost_change, keys, details) ==
    [title |-> title, priority |-> priority, est_delay_reduction_min |-> est,
     est_cost_change |-> cost_change, keys |-> keys, details |-> details]

BaseKeys == {"title", "priority", "est_delay_reduction_min", "est_cost_change"}

RECURSIVE InsertByPriority(_, _)
InsertByPriority(a_, sorted_) ==
    Only({IF sorted = <<>> THEN <<a>>
          ELSE IF a.priority < Head(sorted).priority THEN <<a>> \o sorted
          ELSE <<Head(sorted)>> \o InsertByPriority(a, Tail(sorted)) :
          a \in {a_}, sorted \in {sorted_}})

RECURSIVE InsertByPriorityDesc(_, _)
InsertByPriorityDesc(a_, sorted_) ==
    Only({IF sorted = <<>> THEN <<a>>
          ELSE IF a.priority > Head(sorted).priority THEN <<a>> \o sorted
          ELSE <<Head(sorted)>> \o InsertByPriorityDesc(a, Tail(sorted)) :
          a \in {a_}, sorted \in {sorted_}})

RECURSIVE sort_by_priority_desc(_)
\* mutant: sorted(..., reverse=True)
sort_by_priority_desc(as_) ==
    Only({IF as = <<>> THEN <<>>
          ELSE InsertByPriorityDesc(as[Len(as)],
                                    sort_by_priority_desc(SubSeq(as, 1, Len(as) - 1))) :
          as \in {as_}})

RECURSIVE sort_by_priority(_)
\* sorted(actions, key=priority): stable, ascending
sort_by_priority(as_) ==
    Only({IF as = <<>> THEN <<>>
          ELSE InsertByPriority(as[Len(as)], sort_by_priority(SubSeq(as, 1, Len(as) - 1))) :
          as \in {as_}})

\* crew.run(prompt) of the two deterministic collaborators
SimpleCrewText == "1) Re-route to avoid congestion. 2) Prioritize urgent shipments. 3) Notify customers."
LocalCrewText == "1) Re-route to avoid high-traffic corridors. 2) Assign a faster vehicle. 3) Increase buffer time."

RunResults(c) ==
    IF c = "none" THEN {"not_called"}
    ELSE IF c = "simple" THEN {SimpleCrewText}
    ELSE IF c = "local" THEN {LocalCrewText}
    ELSE {"Plan: re-route first, then shift departures.", "raises", "not_a_string"}

\* mutant: the assignment made without the try block's protection, whatever run did
enrich_unprotected(as_, c, rr) ==
    Only({
    IF c = "none" \/ as = <<>> THEN as
    ELSE [as EXCEPT ![1] = [@ EXCEPT !.details = @ \o <<"Crew suggestion:", rr>>,
                                      !.keys = @ \cup {"details"}]]
    : as \in {as_}})

\* lines 108-122: the text is appended to the first action; a failure of run
\* or of the concatenation leaves the list as it was
enrich(as_, c, rr) ==
    Only({
    IF c = "none" \/ rr \in {"raises", "not_a_string"} \/ as = <<>> THEN as
    ELSE [as EXCEPT ![1] = [@ EXCEPT !.details = @ \o <<"Crew suggestion:", rr>>,
                                      !.keys = @ \cup {"details"}]]
    : as \in {as_}})

\* the three estimates, in the order the code asks for them
shift_change(base) ==
    Only({[Weather_Impact_Num |-> SetTo(Num(IF w - 1 > 0 THEN w - 1 ELSE 0, 1))] :
          w \in {Trunc(base.rows[1]["Weather_Impact_Num"])}})

\* generate_corrective_actions with the first route `top` (NA when there is no group)
generate_corrective_actions(t, m, base, c, rr, top) ==
    Only({
    LET a1 == Action(<<"Re-route deliveries currently on Route", top>>, 1,
                     round1(est_reduce.val), "+-small", BaseKeys \cup {"details"},
                     <<"Use historical congestion and distance data to pick alternate paths.">>)
        a2 == Action(<<"Shift departure times earlier for weather/peak-hour avoidance">>, 2,
                     round1(est_shift.val), "small", BaseKeys, <<>>)
        a3 == Action(<<"Driver coaching and load optimization to reduce fuel per km">>, 3,
                     round1(est_fuel.val), "reduces fuel costs", BaseKeys \cup {"details"},
                     <<"Coach drivers on eco-driving, optimize loads, maintain vehicles.">>)
        built == (IF top # NA THEN <<a1>> ELSE <<>>) \o <<a2, a3>>
    IN  IF (top # NA /\ ~est_reduce.ok) \/ ~est_shift.ok \/ ~est_fuel.ok THEN Raised
        ELSE Returned(sort_by_priority(enrich(built, c, rr)))
    : est_reduce \in {estimate_impact(m, base, [Distance_KM |-> ScaleBy(Num(9, 10))])},
      est_shift \in {estimate_impact(m, base, shift_change(base))},
      est_fuel \in {estimate_impact(m, base, [Fuel_per_KM |-> ScaleBy(Num(85, 100))])}})

\* rows of the table main.py passes: merged data after compute_metrics, of
\* which the ranker reads the grouping key and the delay
ActionSampleRows ==
    { [Order_ID |-> "A", Route |-> "R1", Traffic_Delay_Minutes |-> Num(30, 1)],
      [Order_ID |-> "B", Route |-> "R2", Traffic_Delay_Minutes |-> Num(30, 1)],
      [Order_ID |-> "C", Route |-> NA, Traffic_Delay_Minutes |-> Num(90, 1)],
      [Order_ID |-> "D", Route |-> "R1", Traffic_Delay_Minutes |-> Zero] }

ActionTables ==
    { [cols |-> C, rows |-> [i \in 1..Len(rs) |-> Restrict(rs[i], C)]] :
        C \in {{"Order_ID", "Route", "Traffic_Delay_Minutes"}, {"Order_ID", "Traffic_Delay_Minutes"}},
        rs \in SeqsUpTo(ActionSampleRows, MaxRows) }

ActionModels ==
    {DummyWrapper, LinearWrapper(<<1, 1, 1, 0>>, 30), LinearWrapper(<<-1, 2, -1, 0>>, 30)}

Crews == {"none", "simple", "local", "real"}

IdleActions ==
    /\ adf = EmptyTable
    /\ amodel = DummyWrapper
    /\ abase = EmptyTable
    /\ crew = "none"
    /\ run_result = "not_called"
    /\ actions = Raised
    /\ pcA = "idle"

InitActions ==
    /\ adf \in ActionTables
    /\ amodel \in ActionModels
    /\ abase \in BaseInputs
    /\ crew \in Crews
    /\ run_result = "not_called"
    /\ actions = Raised
    /\ pcA = "ready"

CallGenerateCorrectiveActions ==
    /\ pcA = "ready"
    /\ \E rr \in RunResults(crew) :
       \E top \in (IF route_groups(adf) = {} THEN {NA} ELSE top_routes(adf)) :
         /\ run_result' = rr
         /\ actions' = generate_corrective_actions(adf, amodel, abase, crew, rr, top)
    /\ pcA' = "done"
    /\ UNCHANGED <<adf, amodel, abase, crew, metricsVars, impactVars, modelVars, mergeVars, startupVars, crewVars>>

NextActions == CallGenerateCorrectiveActions

----------------------------------------------------------------------------
(* Dataset merger: utils/data_processing.py *)

Files == <<"orders.csv", "delivery_performance.csv", "routes_distance.csv",
           "cost_breakdown.csv", "vehicle_fleet.csv">>

NoFile == [exists |-> FALSE, table |-> EmptyTable]
FileOf(t) == [exists |-> TRUE, table |-> t]

\* DATA_DIR / name
PathOf(name) == <<"data", name>>

\* mutant: a file that is not there reads as an empty table
read_csv_lenient(dir, name) ==
    IF dir[name].exists THEN Returned(dir[name].table)
    ELSE Returned([cols |-> {"Order_ID"}, rows |-> <<>>])

\* _read_csv: the table, or FileNotFoundError
read_csv(dir, name) ==
    IF dir[name].exists THEN Returned(dir[name].table) ELSE Raised

\* the first file, in reading order, that cannot be read; 0 when all can
first_unreadable(dir) ==
    IF \A i \in 1..Len(Files) : read_csv(dir, Files[i]).ok THEN 0
    ELSE CHOOSE i \in 1..Len(Files) :
            /\ ~read_csv(dir, Files[i]).ok
            /\ \A j \in 1..(i - 1) : read_csv(dir, Files[j]).ok

Matches(right, id) == SelectSeq(right.rows, LAMBDA r : r["Order_ID"] = id)

RECURSIVE Flatten(_)
Flatten(ss_) ==
    Only({IF ss = <<>> THEN <<>> ELSE Head(ss) \o Flatten(Tail(ss)) : ss \in {ss_}})

\* the left row extended by the right row's columns, NaN where there is no right row
Joined(l, r, lcols, rcols, matched) ==
    [c \in lcols \cup rcols |-> IF c \in lcols THEN l[c] ELSE IF matched THEN r[c] ELSE NaN]

\* mutant: merge(how="inner") drops the left rows without a match
inner_merge(left_, right_) ==
    Only({
    [cols |-> left.cols \cup right.cols,
     rows |-> Flatten([i \in 1..Len(left.rows) |->
                Only({[k \in 1..Len(ms) |-> Joined(l, ms[k], left.cols, right.cols, TRUE)] :
                      l \in {left.rows[i]},
                      ms \in {Matches(right, left.rows[i]["Order_ID"])}})])]
    : left \in {left_}, right \in {right_}})

\* merge(right, on="Order_ID", how="left"): left order kept, one row per match,
\* one row of nulls for a left row without a match
left_merge(left_, right_) ==
    Only({
    [cols |-> left.cols \cup right.cols,
     rows |-> Flatten([i \in 1..Len(left.rows) |->
                Only({IF ms = <<>> THEN <<Joined(l, l, left.cols, right.cols, FALSE)>>
                      ELSE [k \in 1..Len(ms) |->
                              Joined(l, ms[k], left.cols, right.cols, TRUE)] :
                      l \in {left.rows[i]},
                      ms \in {Matches(right, left.rows[i]["Order_ID"])}})])]
    : left \in {left_}, right \in {right_}})

\* Series.mean(): missing cells are skipped, NaN when there is none
series_mean(xs) ==
    Only({IF present = <<>> THEN NaN ELSE Div(SumSeq(present), Num(Len(present), 1)) :
          present \in {SelectSeq(xs, notna)}})

FillCol(df_, c, v_) ==
    Only({IF c \in t.cols /\ notna(v)
          THEN WithCol(t, c, LAMBDA r : IF isna(r[c]) THEN v ELSE r[c])
          ELSE t : t \in {df_}, v \in {v_}})

FillText(df_, c, v) ==
    Only({IF c \in t.cols THEN WithCol(t, c, LAMBDA r : IF r[c] = NA THEN v ELSE r[c])
          ELSE t : t \in {df_}})

\* lines 36-46: the defaults of the columns that exist after the merge
fill_defaults(df_) ==
    Only({FillCol(FillCol(FillText(FillCol(t, "Traffic_Delay_Minutes", Zero),
                                   "Weather_Impact", "None"),
                          "Fuel_Consumption_L",
                          IF "Fuel_Consumption_L" \in t.cols
                          THEN series_mean(Column(t, "Fuel_Consumption_L")) ELSE NaN),
                  "Toll_Charges_INR", Zero) : t \in {df_}})

\* [ok, error, prefill, val]: the path of the missing file, or the joined
\* table before and after the default fill
load_and_merge_data(dir) ==
    Only({
        IF bad # 0
        THEN [ok |-> FALSE, error |-> PathOf(Files[bad]), prefill |-> EmptyTable, val |-> EmptyTable]
        ELSE LET orders == read_csv(dir, "orders.csv").val
                 delivery == read_csv(dir, "delivery_performance.csv").val
                 routes == read_csv(dir, "routes_distance.csv").val
                 costs == read_csv(dir, "cost_breakdown.csv").val
             IN  Only({[ok |-> TRUE, error |-> <<>>, prefill |-> joined,
                        val |-> fill_defaults(joined)] :
                       joined \in {left_merge(left_merge(left_merge(orders, delivery), routes),
                                              costs)}})
    : bad \in {first_unreadable(dir)}})

OrderIds == {"A", "B"}

\* the content of the data files: any rows over the order identifiers, the
\* cells of an order fixed per file
OrdersTables ==
    {[cols |-> {"Order_ID"}, rows |-> [i \in 1..Len(ids) |-> [Order_ID |-> ids[i]]]] :
        ids \in SeqsUpTo(OrderIds, MaxSrcRows)}

DeliveryTables ==
    {[cols |-> {"Order_ID", "Traffic_Delay_Minutes"},
      rows |-> [i \in 1..Len(ids) |->
                  [Order_ID |-> ids[i],
                   Traffic_Delay_Minutes |-> IF ids[i] = "A" THEN Num(30, 1) ELSE Num(45, 1)]]] :
        ids \in SeqsUpTo(OrderIds, MaxSrcRows)}

RoutesTables ==
    {[cols |-> {"Order_ID", "Distance_KM", "Fuel_Consumption_L"},
      rows |-> [i \in 1..Len(ids) |->
                  [Order_ID |-> ids[i],
                   Distance_KM |-> IF ids[i] = "A" THEN Num(100, 1) ELSE Num(250, 1),
                   Fuel_Consumption_L |-> IF ids[i] = "A" THEN Num(10, 1) ELSE Num(30, 1)]]] :
        ids \in SeqsUpTo(OrderIds, MaxSrcRows)}

CostsTables ==
    {[cols |-> {"Order_ID", "Fuel_Cost_INR"},
      rows |-> [i \in 1..Len(ids) |->
                  [Order_ID |-> ids[i],
                   Fuel_Cost_INR |-> IF ids[i] = "A" THEN Num(100, 1) ELSE Num(50, 1)]]] :
        ids \in SeqsUpTo(OrderIds, MaxSrcRows)}

FleetTable == [cols |-> {"Vehicle_ID"}, rows |-> <<[Vehicle_ID |-> "V1"]>>]

FileOrAbsent(T) == {NoFile} \cup {FileOf(t) : t \in T}

Directories ==
    {[f \in Range(Files) |->
        IF f = "orders.csv" THEN o
        ELSE IF f = "delivery_performance.csv" THEN d
        ELSE IF f = "routes_distance.csv" THEN r
        ELSE IF f = "cost_breakdown.csv" THEN c ELSE v] :
        o \in FileOrAbsent(OrdersTables), d \in FileOrAbsent(DeliveryTables),
        r \in FileOrAbsent(RoutesTables), c \in FileOrAbsent(CostsTables),
        v \in FileOrAbsent({FleetTable})}

EmptyDirectory == [f \in Range(Files) |-> NoFile]

IdleMerge ==
    /\ fs = EmptyDirectory
    /\ prefill = EmptyTable
    /\ merged = Raised
    /\ merge_error = <<>>
    /\ pcD = "idle"

InitMerge ==
    /\ fs \in Directories
    /\ prefill = EmptyTable
    /\ merged = Raised
    /\ merge_error = <<>>
    /\ pcD = "ready"

CallLoadAndMergeData ==
    /\ pcD = "ready"
    /\ \E r \in {load_and_merge_data(fs)} :
           /\ merged' = IF r.ok THEN Returned(r.val) ELSE Raised
           /\ prefill' = r.prefill
           /\ merge_error' = r.error
    /\ pcD' = "done"
    /\ UNCHANGED <<fs, metricsVars, impactVars, modelVars, actionVars, startupVars, crewVars>>

NextMerge == CallLoadAndMergeData

----------------------------------------------------------------------------
(* Crew facade: crew_setup.py and agents.py *)

\* the value of FORCE_LOCAL_CREW; "unset" reads as the default "0"
ForceValues == {"unset", "0", "1", "true", "True", "yes"}

\* one environment of create_crew: the toggle, whether OPENAI_API_KEY or
\* CREWAI_API_KEY is set, whether `import agents` works, whether crewai is
\* installed, and whether Crew(agents=...) and Crew([...]) can be built
CrewEnvs ==
    [force : ForceValues, has_key : BOOLEAN, agents_import_ok : BOOLEAN,
     crewai_available : BOOLEAN, crew_kw_ok : BOOLEAN, crew_pos_ok : BOOLEAN]

\* agents.create_crew: the local Crew without crewai, else the real one, built
\* with keywords or, when that fails, positionally
agents_create_crew(e) ==
    IF ~e.crewai_available THEN Returned("local")
    ELSE IF e.crew_kw_ok THEN Returned("real")
    ELSE IF e.crew_pos_ok THEN Returned("real")
    ELSE Raised

force_local(e) == e.force \in {"1", "true", "True"}

\* mutant: line 47 outside the try block, a failed build reaches the caller
create_crew_unguarded(e) ==
    IF force_local(e) THEN Returned("simple")
    ELSE IF ~e.agents_import_ok THEN Returned("simple")
    ELSE IF ~e.has_key THEN Returned("simple")
    ELSE agents_create_crew(e)

\* crew_setup.create_crew
create_crew(e) ==
    IF force_local(e) THEN Returned("simple")
    ELSE IF ~e.agents_import_ok THEN Returned("simple")
    ELSE IF ~e.has_key THEN Returned("simple")
    ELSE IF agents_create_crew(e).ok THEN agents_create_crew(e)
    ELSE Returned("simple")

\* prompts as generate_corrective_actions builds them: the titles differ
Prompts == {"actions with re-route", "actions without re-route"}

\* run(prompt) of the object create_crew returned
crew_run(c, prompt) == RunResults(c)

IdleCrew ==
    /\ cenv = [force |-> "unset", has_key |-> FALSE, agents_import_ok |-> FALSE,
               crewai_available |-> FALSE, crew_kw_ok |-> FALSE, crew_pos_ok |-> FALSE]
    /\ ccrew = Raised
    /\ cprompt = <<>>
    /\ ctext = "not_called"
    /\ pcC = "idle"

InitCrew ==
    /\ cenv \in CrewEnvs
    /\ ccrew = Raised
    /\ cprompt = <<>>
    /\ ctext = "not_called"
    /\ pcC = "ready"

CallCreateCrew ==
    /\ pcC = "ready"
    /\ ccrew' = create_crew(cenv)
    /\ pcC' = "created"
    /\ UNCHANGED <<cenv, cprompt, ctext, metricsVars, impactVars, modelVars, actionVars,
                   mergeVars, startupVars>>

CallRun ==
    /\ pcC = "created"
    /\ ccrew.ok
    /\ \E prompt \in Prompts :
       \E text \in crew_run(ccrew.val, prompt) :
         /\ cprompt' = prompt
         /\ ctext' = text
    /\ pcC' = "ran"
    /\ UNCHANGED <<cenv, ccrew, metricsVars, impactVars, modelVars, actionVars,
                   mergeVars, startupVars>>

NextCrew == CallCreateCrew \/ CallRun

----------------------------------------------------------------------------
(* Startup: main.py lines 16-27 *)

TwoOrders ==
    [cols |-> {"Order_ID"}, rows |-> <<[Order_ID |-> "A"], [Order_ID |-> "B"]>>]

OneOrder == [cols |-> {"Order_ID"}, rows |-> <<[Order_ID |-> "A"]>>]

StartupDirectories ==
    {[f \in Range(Files) |->
        IF f = "orders.csv" THEN o
        ELSE IF f = "delivery_performance.csv"
             THEN (IF f \in gone THEN NoFile
                   ELSE FileOf([cols |-> {"Order_ID", "Traffic_Delay_Minutes"},
                                rows |-> <<[Order_ID |-> "A", Traffic_Delay_Minutes |-> Num(30, 1)]>>]))
        ELSE IF f = "routes_distance.csv"
             THEN (IF f \in gone THEN NoFile
                   ELSE FileOf([cols |-> {"Order_ID", "Distance_KM"},
                                rows |-> <<[Order_ID |-> "B", Distance_KM |-> Num(100, 1)]>>]))
        ELSE IF f = "cost_breakdown.csv"
             THEN (IF f \in gone THEN NoFile
                   ELSE FileOf([cols |-> {"Order_ID", "Fuel_Cost_INR"},
                                rows |-> <<[Order_ID |-> "A", Fuel_Cost_INR |-> Num(100, 1)]>>]))
        ELSE (IF f \in gone THEN NoFile ELSE FileOf(FleetTable))] :
        o \in {NoFile, FileOf(OneOrder), FileOf(TwoOrders)},
        gone \in SUBSET (Range(Files) \ {"orders.csv"})}

IdleStartup ==
    /\ p_fs = EmptyDirectory
    /\ p_fs0 = EmptyDirectory
    /\ p_artifact = Absent
    /\ p_raw = Raised
    /\ p_df = EmptyTable
    /\ p_model = Raised
    /\ p_crew = Raised
    /\ p_error = <<>>
    /\ p_loads = 0
    /\ pcP = "idle"

InitStartup ==
    /\ p_fs \in StartupDirectories
    /\ p_fs0 = p_fs
    /\ p_artifact \in InitialArtifacts
    /\ p_raw = Raised
    /\ p_df = EmptyTable
    /\ p_model = Raised
    /\ p_crew = Raised
    /\ p_error = <<>>
    /\ p_loads = 0
    /\ pcP = "load"

\* line 17: raw = load_and_merge_data(); an exception ends the script
StartupLoad ==
    /\ pcP = "load"
    /\ \E r \in {load_and_merge_data(p_fs)} :
           /\ p_raw' = IF r.ok THEN Returned(r.val) ELSE Raised
           /\ p_error' = r.error
           /\ pcP' = IF r.ok THEN "metrics" ELSE "halted"
    /\ p_loads' = p_loads + 1
    /\ UNCHANGED <<p_fs, p_fs0, p_artifact, p_df, p_model, p_crew,
                   metricsVars, impactVars, modelVars, actionVars, mergeVars, crewVars>>

\* lines 19-25: the guarded date parsing, then df = compute_metrics(raw), which
\* writes its columns into raw
StartupMetrics ==
    /\ pcP = "metrics"
    /\ p_df' = compute_metrics(p_raw.val)
    /\ p_raw' = Returned(p_df')
    /\ pcP' = "model"
    /\ UNCHANGED <<p_fs, p_fs0, p_artifact, p_model, p_crew, p_error, p_loads,
                   metricsVars, impactVars, modelVars, actionVars, mergeVars, crewVars>>

\* a data file disappears after the script has read it
DataFileVanishes ==
    /\ pcP = "model"
    /\ \E f \in Range(Files) :
         /\ p_fs[f].exists
         /\ p_fs' = [p_fs EXCEPT ![f] = NoFile]
    /\ UNCHANGED <<p_fs0, p_artifact, p_raw, p_df, p_model, p_crew, p_error, p_loads, pcP,
                   metricsVars, impactVars, modelVars, actionVars, mergeVars, crewVars>>

\* line 26: model = load_model(), which reads the data files again
StartupLoadModel ==
    /\ pcP = "model"
    /\ \E r \in {load_and_merge_data(p_fs)} :
       \E e \in {x \in Envs : x.data_ok = r.ok} :
       \E d \in {[nrows |-> Len(compute_metrics(r.val).rows), slope |-> 1]} :
       \E o \in {load_model(p_artifact, d, e)} :
             /\ p_model' = IF o.ok THEN Returned(o.model) ELSE Raised
             /\ p_artifact' = o.artifact
             /\ pcP' = IF o.ok THEN "crew" ELSE "halted"
    /\ UNCHANGED <<p_fs, p_fs0, p_raw, p_df, p_crew, p_error, p_loads,
                   metricsVars, impactVars, modelVars, actionVars, mergeVars, crewVars>>

\* line 27: crew = create_crew()
StartupCreateCrew ==
    /\ pcP = "crew"
    /\ \E e \in CrewEnvs :
       \E c \in {create_crew(e)} :
         /\ p_crew' = c
         /\ pcP' = IF c.ok THEN "ready" ELSE "halted"
    /\ UNCHANGED <<p_fs, p_fs0, p_artifact, p_raw, p_df, p_model, p_error, p_loads,
                   metricsVars, impactVars, modelVars, actionVars, mergeVars, crewVars>>

NextStartup ==
    StartupLoad \/ StartupMetrics \/ DataFileVanishes \/ StartupLoadModel \/ StartupCreateCrew

----------------------------------------------------------------------------
(* Specifications *)

InitSpecMetrics ==
    InitMetrics /\ IdleImpact /\ IdleModel /\ IdleActions /\ IdleMerge /\ IdleStartup /\ IdleCrew

SpecMetrics == InitSpecMetrics /\ [][NextMetrics]_vars

InitSpecImpact ==
    InitImpact /\ IdleMetrics /\ IdleModel /\ IdleActions /\ IdleMerge /\ IdleStartup /\ IdleCrew

SpecImpact == InitSpecImpact /\ [][NextImpact]_vars

InitSpecModel ==
    InitModel /\ IdleMetrics /\ IdleImpact /\ IdleActions /\ IdleMerge /\ IdleStartup /\ IdleCrew

SpecModel == InitSpecModel /\ [][NextModel]_vars

InitSpecActions ==
    InitActions /\ IdleMetrics /\ IdleImpact /\ IdleModel /\ IdleMerge /\ IdleStartup /\ IdleCrew

SpecActions == InitSpecActions /\ [][NextActions]_vars

InitSpecMerge ==
    InitMerge /\ IdleMetrics /\ IdleImpact /\ IdleModel /\ IdleActions /\ IdleStartup /\ IdleCrew

SpecMerge == InitSpecMerge /\ [][NextMerge]_vars

InitSpecStartup ==
    InitStartup /\ IdleMetrics /\ IdleImpact /\ IdleModel /\ IdleActions /\ IdleMerge /\ IdleCrew

SpecStartup == InitSpecStartup /\ [][NextStartup]_vars

InitSpecCrew ==
    InitCrew /\ IdleMetrics /\ IdleImpact /\ IdleModel /\ IdleActions /\ IdleMerge /\ IdleStartup

SpecCrew == InitSpecCrew /\ [][NextCrew]_vars

----------------------------------------------------------------------------
(* Properties of the metrics engine *)

\* the cell of column c in row i of the table as it was passed in, NaN when
\* the table had no such column
Given(i, c) == IF c \in df0.cols THEN df0.rows[i][c] ELSE NaN

\* C2, as claimed: every row of the table returned by compute_metrics has
\* Reliability_Score <= 1.0, whatever Traffic_Delay_Minutes values the rows carry.
C2_ReliabilityAtMostOne ==
    pcM = "done" =>
        \A i \in 1..Len(out.rows) : Leq(out.rows[i]["Reliability_Score"], One)

\* C2, amended: every returned row whose Traffic_Delay_Minutes is non-negative
\* has Reliability_Score <= 1.0, and a row with a negative delay has a score above 1.0.
C2_ReliabilityBoundNonNegativeDelay ==
    pcM = "done" =>
        \A i \in 1..Len(out.rows) :
            /\ Geq(out.rows[i]["Traffic_Delay_Minutes"], Zero)
                  => Leq(out.rows[i]["Reliability_Score"], One)
            /\ Lt(out.rows[i]["Traffic_Delay_Minutes"], Zero)
                  => Gt(out.rows[i]["Reliability_Score"], One)

C2_Witness ==
    /\ pcM = "done"
    /\ Len(out.rows) = 2
    /\ \E i, j \in 1..Len(out.rows) :
          /\ Gt(out.rows[i]["Traffic_Delay_Minutes"], Zero)
          /\ out.rows[i]["Reliability_Score"] = Zero
          /\ out.rows[j]["Traffic_Delay_Minutes"] = Zero
          /\ out.rows[j]["Reliability_Score"] = One

\* C3: a row whose Distance_KM is missing or <= 0, or whose table lacks the
\* Distance_KM or Fuel_Consumption_L column, gets a missing Fuel_per_KM (not zero,
\* not infinite); a row with Distance_KM > 0 gets Fuel_Consumption_L / Distance_KM.
C3_FuelPerKmSafe ==
    pcM = "done" =>
        \A i \in 1..Len(out.rows) :
            LET dist == Given(i, "Distance_KM")
                fuel == Given(i, "Fuel_Consumption_L")
                fpk == out.rows[i]["Fuel_per_KM"]
            IN  IF isna(dist) \/ Leq(dist, Zero) \/ "Fuel_Consumption_L" \notin df0.cols
                THEN isna(fpk)
                ELSE IF isna(fuel) THEN isna(fpk)
                ELSE notna(fpk) /\ ~isinf(fpk) /\ Mul(fpk, dist) = fuel

C3_Witness ==
    /\ pcM = "done"
    /\ \E i, j \in 1..Len(out.rows) :
          /\ Given(i, "Distance_KM") = Zero
          /\ Given(i, "Fuel_Consumption_L") = Num(10, 1)
          /\ isna(out.rows[i]["Fuel_per_KM"])
          /\ Given(j, "Distance_KM") = Num(4, 1)
          /\ out.rows[j]["Fuel_per_KM"] = Num(5, 2)

\* a cost cell as the sum counts it: an absent column and a missing cell are 0
CostOrZero(i, c) == IF isna(Given(i, c)) THEN Zero ELSE Given(i, c)

\* C4: Total_Cost_INR of every row is the sum of the four cost fields, an absent
\* cost column and a missing cell both counting as 0.
C4_TotalCostIsSum ==
    pcM = "done" =>
        \A i \in 1..Len(out.rows) :
            out.rows[i]["Total_Cost_INR"] =
                Add(CostOrZero(i, "Fuel_Cost_INR"),
                    Add(CostOrZero(i, "Labor_Cost_INR"),
                        Add(CostOrZero(i, "Maintenance_Cost_INR"),
                            CostOrZero(i, "Toll_Charges_INR"))))

C4_Witness ==
    /\ pcM = "done"
    /\ "Toll_Charges_INR" \notin df0.cols
    /\ "Toll_Charges_INR" \in warned
    /\ \E i \in 1..Len(out.rows) :
          /\ Given(i, "Fuel_Cost_INR") = Num(100, 1)
          /\ Given(i, "Labor_Cost_INR") = Num(50, 1)
          /\ "Maintenance_Cost_INR" \in df0.cols /\ isna(Given(i, "Maintenance_Cost_INR"))
          /\ out.rows[i]["Total_Cost_INR"] = Num(150, 1)

\* C10: compute_metrics is pure: the returned table has the rows and order
\* identifiers of the input, every original column that is not a derived one keeps
\* its values, and the table the caller passed in is left unmodified.
C10_PureFunction ==
    pcM = "done" =>
        /\ Len(out.rows) = Len(df0.rows)
        /\ \A i \in 1..Len(out.rows) : \A c \in df0.cols : out.rows[i][c] = df0.rows[i][c]
        /\ df = df0

----------------------------------------------------------------------------
(* Properties of the impact estimator *)

----------------------------------------------------------------------------
(* Properties of model loading *)

\* C5: load_model never raises and returns an object exposing predict; when the
\* artifact cannot be used and the imports fail, the data cannot be loaded, there
\* are fewer than 2 rows or training fails, the object is the stub model.
C5_LoadModelNeverRaises ==
    calls > 0 =>
        /\ returned.ok
        /\ has_predict(returned.val)
        /\ (~last.usable /\ last.fallback) => returned.val = DummyWrapper

C5_Witness ==
    /\ calls > 0
    /\ artifact = Stored(NoPredict)
    /\ ~last.usable
    /\ last.fallback
    /\ last.read_data
    /\ returned = Returned(DummyWrapper)

\* C6: after load_model fell back to the stub, predict on an n-row table, whichever
\* subset of the feature columns it carries, returns exactly n values, all 0.
C6_StubPredictsZeros ==
    (calls > 0 /\ returned = Returned(DummyWrapper) /\ pinput # EmptyTable) =>
        /\ preds.ok
        /\ Len(preds.val) = Len(pinput.rows)
        /\ \A i \in 1..Len(preds.val) : preds.val[i] = Zero

----------------------------------------------------------------------------
(* Properties of the action ranker *)

Priorities(as) == [i \in 1..Len(as) |-> as[i].priority]

\* C7, as claimed: for every merged table, model and crew the three actions of
\* the catalogue are returned, in the order priority 1, 2, 3.
C7_ThreeActionsInOrder ==
    pcA = "done" => (actions.ok /\ Priorities(actions.val) = <<1, 2, 3>>)

\* C7, amended: the returned actions are in strictly ascending priority order:
\* priorities 1, 2, 3 when some row of the table has a grouping key (Route, or
\* Order_ID without a Route column) that is not missing, and only priorities 2, 3
\* (no re-route action) when no row has one.
C7_ActionsAscending ==
    pcA = "done" =>
        /\ actions.ok
        /\ \A i \in 1..(Len(actions.val) - 1) :
              actions.val[i].priority < actions.val[i + 1].priority
        /\ Priorities(actions.val) =
              (IF \E i \in 1..Len(adf.rows) : adf.rows[i][route_col(adf)] # NA
               THEN <<1, 2, 3>> ELSE <<2, 3>>)

C7_Witness ==
    /\ pcA = "done"
    /\ "Route" \notin adf.cols
    /\ Len(adf.rows) = 2
    /\ crew = "real"
    /\ actions.ok
    /\ Priorities(actions.val) = <<1, 2, 3>>
    /\ actions.val[1].title[2] = "A"

----------------------------------------------------------------------------
(* Properties of the dataset merger *)

AnchorRows == fs["orders.csv"].table.rows

IdsOf(rows) == {rows[i]["Order_ID"] : i \in 1..Len(rows)}

CountOf(rows, id) == Cardinality({i \in 1..Len(rows) : rows[i]["Order_ID"] = id})

SourceColumns(f) == fs[f].table.cols \ {"Order_ID"}

\* C8: the order identifiers of the merged table are exactly those of orders.csv:
\* every merged identifier is in the anchor, no anchor row is dropped, and an anchor
\* row without a match in a joined source has nulls, before the default fill, in
\* that source's columns.
C8_MergeKeyIntegrity ==
    (pcD = "done" /\ merged.ok) =>
        /\ IdsOf(merged.val.rows) = IdsOf(AnchorRows)
        /\ \A id \in IdsOf(AnchorRows) :
              CountOf(merged.val.rows, id) >= CountOf(AnchorRows, id)
        /\ Len(prefill.rows) = Len(merged.val.rows)
        /\ \A i \in 1..Len(prefill.rows) :
              /\ prefill.rows[i]["Order_ID"] = merged.val.rows[i]["Order_ID"]
              /\ \A f \in {"delivery_performance.csv", "routes_distance.csv", "cost_breakdown.csv"} :
                    prefill.rows[i]["Order_ID"] \notin IdsOf(fs[f].table.rows)
                        => \A c \in SourceColumns(f) : isna(prefill.rows[i][c])

C8_Witness ==
    /\ pcD = "done"
    /\ merged.ok
    /\ IdsOf(AnchorRows) = {"A", "B"}
    /\ IdsOf(fs["delivery_performance.csv"].table.rows) = {"A"}
    /\ IdsOf(fs["cost_breakdown.csv"].table.rows) = {"B"}
    /\ \E i \in 1..Len(prefill.rows) :
          /\ prefill.rows[i]["Order_ID"] = "B"
          /\ isna(prefill.rows[i]["Traffic_Delay_Minutes"])
          /\ merged.val.rows[i]["Traffic_Delay_Minutes"] = Zero
          /\ prefill.rows[i]["Fuel_Cost_INR"] = Num(50, 1)

----------------------------------------------------------------------------
(* Properties of the startup pipeline *)

MissingAtStart == {i \in 1..Len(Files) : ~p_fs0[Files[i]].exists}

----------------------------------------------------------------------------
(* Properties of the crew facade *)

\* the objects whose run ignores the prompt: _SimpleCrew and the local Crew of agents.py
Fallbacks == {"simple", "local"}

FallbackText(c) == IF c = "simple" THEN SimpleCrewText ELSE LocalCrewText

\* C11: create_crew never raises and returns an object with run; it returns a
\* deterministic fallback, whose text is the same for every prompt, when
\* FORCE_LOCAL_CREW is set (to 1, true or True, the values the code reads as
\* set), when no credential is present, and when importing or building the full
\* backend fails; an object built by agents.create_crew is returned only with
\* FORCE_LOCAL_CREW not set and a credential present.
C11_CreateCrewNeverRaises ==
    pcC \in {"created", "ran"} =>
        /\ ccrew.ok
        /\ ccrew.val \in Fallbacks \cup {"real"}
        /\ (\/ cenv.force \in {"1", "true", "True"}
            \/ ~cenv.has_key
            \/ ~cenv.agents_import_ok
            \/ ~cenv.crewai_available
            \/ (~cenv.crew_kw_ok /\ ~cenv.crew_pos_ok)) => ccrew.val \in Fallbacks
        /\ ccrew.val \in {"local", "real"} =>
              (cenv.force \notin {"1", "true", "True"} /\ cenv.has_key)
        /\ (pcC = "ran" /\ ccrew.val \in Fallbacks) => ctext = FallbackText(ccrew.val)

C11_Witness ==
    /\ pcC = "ran"
    /\ cenv.force = "unset" /\ cenv.has_key /\ cenv.agents_import_ok
    /\ cenv.crewai_available /\ ~cenv.crew_kw_ok /\ ~cenv.crew_pos_ok
    /\ ccrew = Returned("simple")
    /\ cprompt = "actions without re-route"
    /\ ctext = SimpleCrewText

----------------------------------------------------------------------------
(* Properties of the wrapper's preprocessing *)

\* a cell with a missing value read as 0
CellOrZero(x) == IF isna(x) THEN Zero ELSE x

\* the value of feature f in row r of a table with columns C, as C12 states it
ExpectedFeature(f, r, C) ==
    IF f \in C THEN CellOrZero(r[f])
    ELSE IF f = "Fuel_per_KM" /\ "Fuel_Consumption_L" \in C /\ "Distance_KM" \in C
    THEN CellOrZero(Div(r["Fuel_Consumption_L"],
                        IF r["Distance_KM"] = Zero THEN One ELSE r["Distance_KM"]))
    ELSE Zero

\* C12: for every table passed to predict, whichever columns it carries and
\* whichever cells are missing, preprocessing does not fail and hands the model
\* one row per input row with the four features in order and no missing cell:
\* Fuel_per_KM derived as fuel / distance (distance 0 replaced by 1) when absent
\* with both components present, an absent feature 0, a missing cell 0.
C12_PreprocessDense ==
    pinput # EmptyTable =>
        /\ preprocess(pinput).ok
        /\ Len(preprocess(pinput).val) = Len(pinput.rows)
        /\ \A i \in 1..Len(pinput.rows) :
              /\ Len(preprocess(pinput).val[i]) = Len(features)
              /\ \A j \in 1..Len(features) :
                    /\ notna(preprocess(pinput).val[i][j])
                    /\ features[j] # "Weather_Impact_Num" =>
                          preprocess(pinput).val[i][j]
                              = ExpectedFeature(features[j], pinput.rows[i], pinput.cols)

----------------------------------------------------------------------------
(* Properties of the enrichment step *)

\* the route the call put in the re-route title, NA when it built no such action
ChosenTop == IF route_groups(adf) = {} THEN NA ELSE actions.val[1].title[2]

\* the list the same call returns without a collaborator
PlainActions ==
    generate_corrective_actions(adf, amodel, abase, "none", "not_called", ChosenTop).val

RunFailed == run_result \in {"raises", "not_a_string"}

\* C13: with a collaborator whose run succeeds, the returned text is appended to
\* the details of the first action and nothing else changes; when run raises or
\* its result cannot be appended, the returned list is the list built without a
\* collaborator.
C13_EnrichmentOnlyFirstDetails ==
    (pcA = "done" /\ actions.ok) =>
        /\ Len(actions.val) = Len(PlainActions)
        /\ \A i \in 2..Len(actions.val) : actions.val[i] = PlainActions[i]
        /\ (crew # "none" /\ ~RunFailed) =>
              /\ actions.val[1].details
                    = PlainActions[1].details \o <<"Crew suggestion:", run_result>>
              /\ "details" \in actions.val[1].keys
              /\ actions.val[1].title = PlainActions[1].title
              /\ actions.val[1].priority = PlainActions[1].priority
              /\ actions.val[1].est_delay_reduction_min
                    = PlainActions[1].est_delay_reduction_min
              /\ actions.val[1].est_cost_change = PlainActions[1].est_cost_change
        /\ (crew = "none" \/ RunFailed) => actions.val = PlainActions

C13_Witness ==
    /\ pcA = "done"
    /\ crew = "real"
    /\ run_result = "Plan: re-route first, then shift departures."
    /\ actions.ok
    /\ Len(actions.val) = 3
    /\ actions.val[1].priority = 1
    /\ Len(actions.val[1].details) = 3
    /\ actions.val[1].details[3] = run_result
    /\ actions.val[2].details = <<>>

----------------------------------------------------------------------------
(* Properties of sequences of load_model calls *)

\* the step is a load_model call
IsCall == calls' = calls + 1

\* the call returned the object stored at MODEL_PATH and did nothing else
ReturnedArtifactAsIs ==
    /\ returned' = Returned(artifact.obj)
    /\ artifact' = artifact
    /\ last'.loaded
    /\ ~last'.read_data /\ ~last'.trained /\ ~last'.wrote

C15_ArtifactWrittenOnlyAfterTraining ==
    [][/\ artifact' # artifact =>
             /\ IsCall
             /\ data.nrows >= 2
             /\ returned' = Returned(fit(data))
             /\ last'.trained /\ last'.wrote /\ ~last'.fallback
       /\ (IsCall /\ returned' = Returned(DummyWrapper)) => artifact' = artifact
       /\ artifact'.obj # DummyWrapper
       /\ (IsCall /\ ~last'.usable /\ ~last'.fallback) =>
             (returned' = Returned(fit(data)) /\ last'.trained)]_vars

\* a second call, made where the first left no usable artifact, trained and stored
\* its wrapper
C15_Witness ==
    /\ calls = 2
    /\ ~last.usable /\ ~last.fallback
    /\ last.read_data /\ last.trained /\ last.wrote
    /\ data.nrows >= 2
    /\ returned = Returned(fit(data))
    /\ artifact = Stored(fit(data))

====
